---- MODULE Spec2Model ----
(***************************************************************************)
(* Tic-tac-toe search engine: backend/core/game_engine.py (board rules)    *)
(* and backend/core/ai_algorithms.py (minimax, alpha-beta, depth-limited   *)
(* search, position evaluation, top-level move selection).                 *)
(***************************************************************************)
EXTENDS Integers, Sequences, FiniteSets, TLC

(***************************************************************************)
(* Bounds of the model.                                                    *)
(***************************************************************************)
\* SpecSearch: boards hold at most MaxEmpty empty cells
MaxEmpty == 4
\* SpecSearch: depth limits range over 0..MaxDepthArg
MaxDepthArg == 3
\* SpecTactics: boards hold at most TacticsMaxEmpty empty cells
TacticsMaxEmpty == 4
\* SpecTactics: depth limits range over 1..TacticsMaxDepth
TacticsMaxDepth == 4
\* Spec: boards hold at most BestMaxEmpty empty cells
BestMaxEmpty == 3
\* Spec: depth overrides range over 0..MaxOverride
MaxOverride == 2
\* SpecEngine: evaluate_position is called with depth in 0..MaxEvalDepth
MaxEvalDepth == 3
\* SpecFrame: boards hold at most FrameMaxEmpty empty cells
FrameMaxEmpty == 2
\* SpecGrid: the grids are made from boards holding at most GridMaxMarks marks
GridMaxMarks == 5
\* SpecSession: the calls are made on boards with at most SessionMaxEmpty empty cells
SessionMaxEmpty == 2
\* SpecNode: minimax is called on boards with at most NodeMaxEmpty empty cells,
\* at depths 0..NodeMaxDepth
NodeMaxEmpty == 3
NodeMaxDepth == 1
\* SpecRoute: the boards posted to /move have at most RouteMaxEmpty empty cells
RouteMaxEmpty == 3
\* SpecConcurrent: the calls are made on boards with at most ConcurrentMaxEmpty empty cells
ConcurrentMaxEmpty == 3

(***************************************************************************)
(* Program constants.                                                      *)
(***************************************************************************)
AI_PLAYER == "O"
HUMAN_PLAYER == "X"
EMPTY == ""
WIN_SCORE == 100
LOSE_SCORE == -100
DRAW_SCORE == 0
\* float('-inf') and float('inf'): below and above every score
NegInf == -1000
PosInf == 1000
\* the default of the max_depth parameter of minimax and alpha_beta
DefaultMaxDepth == 9

Idx == 0..2
Marks == {HUMAN_PLAYER, AI_PLAYER, EMPTY}
\* a Move is a (row, col) pair; None stands for Python's None where a Move is expected
Move(row, col) == <<row, col>>
None == <<-1, -1>>
\* Optional[int]: the empty set is None, {d} is the integer d
NoneInt == {}
SomeInt(d) == {d}

(***************************************************************************)
(* game_engine.py                                                          *)
(***************************************************************************)
winning_combinations ==
    << << <<0, 0>>, <<0, 1>>, <<0, 2>> >>,
       << <<1, 0>>, <<1, 1>>, <<1, 2>> >>,
       << <<2, 0>>, <<2, 1>>, <<2, 2>> >>,
       << <<0, 0>>, <<1, 0>>, <<2, 0>> >>,
       << <<0, 1>>, <<1, 1>>, <<2, 1>> >>,
       << <<0, 2>>, <<1, 2>>, <<2, 2>> >>,
       << <<0, 0>>, <<1, 1>>, <<2, 2>> >>,
       << <<0, 2>>, <<1, 1>>, <<2, 0>> >> >>

\* the number of cells of the grid holding mark
count(b, mark) ==
    Cardinality({rc \in (DOMAIN b) \X Idx : rc[2] \in DOMAIN b[rc[1]] /\ b[rc[1]][rc[2]] = mark})

\* is_valid_board accepting a lead of one for either mark
is_valid_board_either_leads(b) ==
    IF Cardinality(DOMAIN b) # 3 THEN FALSE
    ELSE IF \E row \in DOMAIN b :
               \/ Cardinality(DOMAIN b[row]) # 3
               \/ \E col \in DOMAIN b[row] : b[row][col] \notin {"X", "O", ""}
    THEN FALSE
    ELSE LET x_count == count(b, "X")
             o_count == count(b, "O")
         IN  IF x_count + 1 < o_count \/ x_count > o_count + 1 THEN FALSE ELSE TRUE

is_valid_board(b) ==
    IF Cardinality(DOMAIN b) # 3 THEN FALSE
    ELSE IF \E row \in DOMAIN b :
               \/ Cardinality(DOMAIN b[row]) # 3
               \/ \E col \in DOMAIN b[row] : b[row][col] \notin {"X", "O", ""}
    THEN FALSE
    ELSE LET x_count == count(b, "X")
             o_count == count(b, "O")
         IN  IF x_count < o_count \/ x_count > o_count + 1 THEN FALSE ELSE TRUE

\* a copy of the board with the cell of the move set to the player's mark
make_move(b, move, player) ==
    [b EXCEPT ![move[1]] = [b[move[1]] EXCEPT ![move[2]] = player]]

\* make_move on Python's objects.  A board is a list of three row objects: rows
\* is the sequence of their identities and heap maps an identity to the cells of
\* the row.  The caller's board has the rows 1, 2, 3.
caller_rows == <<1, 2, 3>>
heap_of(b) == [id \in {1, 2, 3} |-> b[id - 1]]
board_of(heap, rows) == [row \in Idx |-> heap[rows[row + 1]]]

\* make_move with new_board = board[:] : a new list of the same row objects
make_move_shared_rows(heap, rows, move, player) ==
    LET new_rows == rows
    IN  [heap |-> [heap EXCEPT ![new_rows[move[1] + 1]] = [@ EXCEPT ![move[2]] = player]],
         rows |-> new_rows]

\* new_board = [row[:] for row in board] allocates a copy of each row;
\* new_board[move.row][move.col] = player writes into the row object that
\* new_board holds at move.row; returns the heap left behind and new_board
make_move_on_heap(heap, rows, move, player) ==
    LET n == Cardinality(DOMAIN heap)
        new_rows == <<n + 1, n + 2, n + 3>>
        copied == [id \in (DOMAIN heap) \cup {n + 1, n + 2, n + 3} |->
                      IF id \in DOMAIN heap THEN heap[id] ELSE heap[rows[id - n]]]
    IN  [heap |-> [copied EXCEPT ![new_rows[move[1] + 1]] = [@ EXCEPT ![move[2]] = player]],
         rows |-> new_rows]

\* the heap after the make_move calls that a search makes on the board it was
\* given: one per available move, in the loop of _maximize_score and the like
RECURSIVE moves_on_heap(_, _, _, _, _)
moves_on_heap(heap, rows, moves, i, player) ==
    IF i > Len(moves) THEN heap
    ELSE moves_on_heap(make_move_on_heap(heap, rows, moves[i], player).heap,
                       rows, moves, i + 1, player)

\* the mark of the first complete line, in the order of winning_combinations
\* (rows, columns, diagonals), or "None"
check_winner(b) ==
    IF b[0][0] # EMPTY /\ b[0][1] = b[0][0] /\ b[0][2] = b[0][0] THEN b[0][0]
    ELSE IF b[1][0] # EMPTY /\ b[1][1] = b[1][0] /\ b[1][2] = b[1][0] THEN b[1][0]
    ELSE IF b[2][0] # EMPTY /\ b[2][1] = b[2][0] /\ b[2][2] = b[2][0] THEN b[2][0]
    ELSE IF b[0][0] # EMPTY /\ b[1][0] = b[0][0] /\ b[2][0] = b[0][0] THEN b[0][0]
    ELSE IF b[0][1] # EMPTY /\ b[1][1] = b[0][1] /\ b[2][1] = b[0][1] THEN b[0][1]
    ELSE IF b[0][2] # EMPTY /\ b[1][2] = b[0][2] /\ b[2][2] = b[0][2] THEN b[0][2]
    ELSE IF b[0][0] # EMPTY /\ b[1][1] = b[0][0] /\ b[2][2] = b[0][0] THEN b[0][0]
    ELSE IF b[0][2] # EMPTY /\ b[1][1] = b[0][2] /\ b[2][0] = b[0][2] THEN b[0][2]
    ELSE "None"

is_draw(b) ==
    IF check_winner(b) # "None" THEN FALSE
    ELSE IF \E row \in Idx : \E col \in Idx : b[row][col] = EMPTY THEN FALSE
    ELSE TRUE

is_game_over(b) == check_winner(b) # "None" \/ is_draw(b)

\* the inner loop of get_available_moves: the empty cells of one row, col 0..2
row_moves(b, row) ==
    SelectSeq(<< Move(row, 0), Move(row, 1), Move(row, 2) >>,
              LAMBDA m : b[m[1]][m[2]] = EMPTY)

\* get_available_moves with the two loops exchanged: column by column
get_available_moves_by_column(b) ==
    LET col_moves(col) ==
            SelectSeq(<< Move(0, col), Move(1, col), Move(2, col) >>,
                      LAMBDA m : b[m[1]][m[2]] = EMPTY)
    IN  col_moves(0) \o col_moves(1) \o col_moves(2)

\* the outer loop: rows 0..2 in order
get_available_moves(b) == row_moves(b, 0) \o row_moves(b, 1) \o row_moves(b, 2)

(***************************************************************************)
(* ai_algorithms.py: evaluation                                            *)
(***************************************************************************)
corner_value(b, row, col) ==
    IF b[row][col] = AI_PLAYER THEN 2
    ELSE IF b[row][col] = HUMAN_PLAYER THEN -2
    ELSE 0

calculate_position_value(b) ==
    (IF b[1][1] = AI_PLAYER THEN 3
     ELSE IF b[1][1] = HUMAN_PLAYER THEN -3
     ELSE 0)
    + corner_value(b, 0, 0) + corner_value(b, 0, 2)
    + corner_value(b, 2, 0) + corner_value(b, 2, 2)

\* evaluate_position with the depth added to a win instead of subtracted
evaluate_position_slow_win(b, depth) ==
    LET winner == check_winner(b)
    IN  IF winner = AI_PLAYER THEN WIN_SCORE + depth
        ELSE IF winner = HUMAN_PLAYER THEN LOSE_SCORE + depth
        ELSE IF is_draw(b) THEN DRAW_SCORE
        ELSE calculate_position_value(b)

\* evaluate_position with the depth subtracted from a loss instead of added
evaluate_position_quick_loss(b, depth) ==
    LET winner == check_winner(b)
    IN  IF winner = AI_PLAYER THEN WIN_SCORE - depth
        ELSE IF winner = HUMAN_PLAYER THEN LOSE_SCORE - depth
        ELSE IF is_draw(b) THEN DRAW_SCORE
        ELSE calculate_position_value(b)

evaluate_position(b, depth) ==
    LET winner == check_winner(b)
    IN  IF winner = AI_PLAYER THEN WIN_SCORE - depth
        ELSE IF winner = HUMAN_PLAYER THEN LOSE_SCORE + depth
        ELSE IF is_draw(b) THEN DRAW_SCORE
        ELSE calculate_position_value(b)

(***************************************************************************)
(* ai_algorithms.py: search.  The statistics fields of the AIAlgorithms    *)
(* instance (nodes_explored, pruned_branches, max_depth_reached) are       *)
(* threaded through the recursion as the record st; every search function  *)
(* returns [move, score, st].                                              *)
(***************************************************************************)
reset_stats == [nodes_explored |-> 0, pruned_branches |-> 0, max_depth_reached |-> 0]

Max(a, b) == IF a > b THEN a ELSE b
Min(a, b) == IF a < b THEN a ELSE b

\* the statistics update at the head of minimax and alpha_beta
visit(st, depth) ==
    [st EXCEPT !.nodes_explored = @ + 1,
               !.max_depth_reached = Max(@, depth)]

\* _should_stop_search that stops one level too late
should_stop_search_late(b, depth, max_depth) == is_game_over(b) \/ depth > max_depth

should_stop_search(b, depth, max_depth) == is_game_over(b) \/ depth >= max_depth

RECURSIVE minimax(_, _, _, _, _)
RECURSIVE maximize_loop(_, _, _, _, _, _, _, _)
RECURSIVE minimize_loop(_, _, _, _, _, _, _, _)

\* the for loop of _maximize_score from its i-th move on
maximize_loop(b, depth, moves, max_depth, i, best_score, best_move, st) ==
    IF i > Len(moves) THEN [move |-> best_move, score |-> best_score, st |-> st]
    ELSE LET new_board == make_move(b, moves[i], AI_PLAYER)
             result == minimax(new_board, depth + 1, FALSE, max_depth, st)
         IN  IF result.score > best_score
             THEN maximize_loop(b, depth, moves, max_depth, i + 1,
                                result.score, moves[i], result.st)
             ELSE maximize_loop(b, depth, moves, max_depth, i + 1,
                                best_score, best_move, result.st)

\* _maximize_score keeping the last of the moves with the greatest score
RECURSIVE maximize_loop_last_wins(_, _, _, _, _, _, _, _)
maximize_loop_last_wins(b, depth, moves, max_depth, i, best_score, best_move, st) ==
    IF i > Len(moves) THEN [move |-> best_move, score |-> best_score, st |-> st]
    ELSE LET new_board == make_move(b, moves[i], AI_PLAYER)
             result == minimax(new_board, depth + 1, FALSE, max_depth, st)
         IN  IF result.score >= best_score
             THEN maximize_loop_last_wins(b, depth, moves, max_depth, i + 1,
                                          result.score, moves[i], result.st)
             ELSE maximize_loop_last_wins(b, depth, moves, max_depth, i + 1,
                                          best_score, best_move, result.st)

maximize_score_last_wins(b, depth, moves, max_depth, st) ==
    maximize_loop_last_wins(b, depth, moves, max_depth, 1, NegInf, None, st)

maximize_score(b, depth, moves, max_depth, st) ==
    maximize_loop(b, depth, moves, max_depth, 1, NegInf, None, st)

\* the for loop of _minimize_score from its i-th move on
minimize_loop(b, depth, moves, max_depth, i, best_score, best_move, st) ==
    IF i > Len(moves) THEN [move |-> best_move, score |-> best_score, st |-> st]
    ELSE LET new_board == make_move(b, moves[i], HUMAN_PLAYER)
             result == minimax(new_board, depth + 1, TRUE, max_depth, st)
         IN  IF result.score < best_score
             THEN minimize_loop(b, depth, moves, max_depth, i + 1,
                                result.score, moves[i], result.st)
             ELSE minimize_loop(b, depth, moves, max_depth, i + 1,
                                best_score, best_move, result.st)

minimize_score(b, depth, moves, max_depth, st) ==
    minimize_loop(b, depth, moves, max_depth, 1, PosInf, None, st)

\* minimax with the statistics update placed after the base case
minimax_count_after_stop(b, depth, is_ai_turn, max_depth, st) ==
    IF should_stop_search(b, depth, max_depth)
    THEN [move |-> None, score |-> evaluate_position(b, depth), st |-> st]
    ELSE LET st1 == visit(st, depth)
             available_moves == get_available_moves(b)
         IN  IF is_ai_turn
             THEN maximize_score(b, depth, available_moves, max_depth, st1)
             ELSE minimize_score(b, depth, available_moves, max_depth, st1)

minimax(b, depth, is_ai_turn, max_depth, st) ==
    LET st1 == visit(st, depth)
    IN  IF should_stop_search(b, depth, max_depth)
        THEN [move |-> None, score |-> evaluate_position(b, depth), st |-> st1]
        ELSE LET available_moves == get_available_moves(b)
             IN  IF is_ai_turn
                 THEN maximize_score(b, depth, available_moves, max_depth, st1)
                 ELSE minimize_score(b, depth, available_moves, max_depth, st1)

RECURSIVE alpha_beta(_, _, _, _, _, _, _)
RECURSIVE maximize_prune_loop(_, _, _, _, _, _, _, _, _, _)
RECURSIVE minimize_prune_loop(_, _, _, _, _, _, _, _, _, _)

\* the for loop of _maximize_with_pruning from its i-th move on
maximize_prune_loop(b, depth, moves, alpha, beta, max_depth, i, best_score, best_move, st) ==
    IF i > Len(moves) THEN [move |-> best_move, score |-> best_score, st |-> st]
    ELSE LET new_board == make_move(b, moves[i], AI_PLAYER)
             result == alpha_beta(new_board, depth + 1, alpha, beta, FALSE, max_depth, st)
             score == result.score
             better == score > best_score
             best_score1 == IF better THEN score ELSE best_score
             best_move1 == IF better THEN moves[i] ELSE best_move
             alpha1 == Max(alpha, score)
         IN  IF beta <= alpha1
             THEN [move |-> best_move1, score |-> best_score1,
                   st |-> [result.st EXCEPT !.pruned_branches = @ + 1]]
             ELSE maximize_prune_loop(b, depth, moves, alpha1, beta, max_depth, i + 1,
                                      best_score1, best_move1, result.st)

\* _maximize_with_pruning keeping the last of the moves with the greatest score
RECURSIVE maximize_prune_loop_last_wins(_, _, _, _, _, _, _, _, _, _)
maximize_prune_loop_last_wins(b, depth, moves, alpha, beta, max_depth, i, best_score,
                              best_move, st) ==
    IF i > Len(moves) THEN [move |-> best_move, score |-> best_score, st |-> st]
    ELSE LET new_board == make_move(b, moves[i], AI_PLAYER)
             result == alpha_beta(new_board, depth + 1, alpha, beta, FALSE, max_depth, st)
             score == result.score
             better == score >= best_score
             best_score1 == IF better THEN score ELSE best_score
             best_move1 == IF better THEN moves[i] ELSE best_move
             alpha1 == Max(alpha, score)
         IN  IF beta <= alpha1
             THEN [move |-> best_move1, score |-> best_score1,
                   st |-> [result.st EXCEPT !.pruned_branches = @ + 1]]
             ELSE maximize_prune_loop_last_wins(b, depth, moves, alpha1, beta, max_depth,
                                                i + 1, best_score1, best_move1, result.st)

maximize_with_pruning_last_wins(b, depth, moves, alpha, beta, max_depth, st) ==
    maximize_prune_loop_last_wins(b, depth, moves, alpha, beta, max_depth, 1,
                                  NegInf, None, st)

maximize_with_pruning(b, depth, moves, alpha, beta, max_depth, st) ==
    maximize_prune_loop(b, depth, moves, alpha, beta, max_depth, 1, NegInf, None, st)

\* the for loop of _minimize_with_pruning from its i-th move on
minimize_prune_loop(b, depth, moves, alpha, beta, max_depth, i, best_score, best_move, st) ==
    IF i > Len(moves) THEN [move |-> best_move, score |-> best_score, st |-> st]
    ELSE LET new_board == make_move(b, moves[i], HUMAN_PLAYER)
             result == alpha_beta(new_board, depth + 1, alpha, beta, TRUE, max_depth, st)
             score == result.score
             better == score < best_score
             best_score1 == IF better THEN score ELSE best_score
             best_move1 == IF better THEN moves[i] ELSE best_move
             beta1 == Min(beta, score)
         IN  IF beta1 <= alpha
             THEN [move |-> best_move1, score |-> best_score1,
                   st |-> [result.st EXCEPT !.pruned_branches = @ + 1]]
             ELSE minimize_prune_loop(b, depth, moves, alpha, beta1, max_depth, i + 1,
                                      best_score1, best_move1, result.st)

\* _minimize_with_pruning with the cutoff comparison reversed (alpha <= beta)
minimize_with_pruning_reversed(b, depth, moves, alpha, beta, max_depth, st) ==
    LET RECURSIVE loop(_, _, _, _, _)
        loop(i, beta0, best_score, best_move, s) ==
            IF i > Len(moves) THEN [move |-> best_move, score |-> best_score, st |-> s]
            ELSE LET new_board == make_move(b, moves[i], HUMAN_PLAYER)
                     result == alpha_beta(new_board, depth + 1, alpha, beta0, TRUE, max_depth, s)
                     score == result.score
                     better == score < best_score
                     best_score1 == IF better THEN score ELSE best_score
                     best_move1 == IF better THEN moves[i] ELSE best_move
                     beta1 == Min(beta0, score)
                 IN  IF alpha <= beta1
                     THEN [move |-> best_move1, score |-> best_score1,
                           st |-> [result.st EXCEPT !.pruned_branches = @ + 1]]
                     ELSE loop(i + 1, beta1, best_score1, best_move1, result.st)
    IN  loop(1, beta, PosInf, None, st)

minimize_with_pruning(b, depth, moves, alpha, beta, max_depth, st) ==
    minimize_prune_loop(b, depth, moves, alpha, beta, max_depth, 1, PosInf, None, st)

alpha_beta(b, depth, alpha, beta, is_ai_turn, max_depth, st) ==
    LET st1 == visit(st, depth)
    IN  IF should_stop_search(b, depth, max_depth)
        THEN [move |-> None, score |-> evaluate_position(b, depth), st |-> st1]
        ELSE LET available_moves == get_available_moves(b)
             IN  IF is_ai_turn
                 THEN maximize_with_pruning(b, depth, available_moves, alpha, beta, max_depth, st1)
                 ELSE minimize_with_pruning(b, depth, available_moves, alpha, beta, max_depth, st1)

depth_limited_minimax(b, max_depth, st) == minimax(b, 0, TRUE, max_depth, st)


(***************************************************************************)
(* ai_algorithms.py: top-level move selection                              *)
(***************************************************************************)
\* move_reasoning: the text, and the number an f-string formats into it (else 0)
Reasoning(text, arg) == [text |-> text, arg |-> arg]

\* _create_analysis, without the wall-clock thinking_time
create_analysis(st, move_reasoning, evaluation_score) ==
    [nodes_explored |-> st.nodes_explored,
     pruned_branches |-> st.pruned_branches,
     max_depth_reached |-> st.max_depth_reached,
     move_reasoning |-> move_reasoning,
     evaluation_score |-> evaluation_score]

\* _get_search_depth with the depths of easy and hard exchanged
get_search_depth_swapped(difficulty, max_depth) ==
    IF max_depth # NoneInt THEN CHOOSE d \in max_depth : TRUE
    ELSE CASE difficulty = "easy" -> 9
           [] difficulty = "medium" -> 6
           [] difficulty = "hard" -> 3
           [] OTHER -> 6

get_search_depth(difficulty, max_depth) ==
    IF max_depth # NoneInt THEN CHOOSE d \in max_depth : TRUE
    ELSE CASE difficulty = "easy" -> 3
           [] difficulty = "medium" -> 6
           [] difficulty = "hard" -> 9
           [] OTHER -> 6

\* _run_algorithm: [best_move, eval_score, reasoning, st]
run_algorithm(b, algorithm, search_depth, st) ==
    IF algorithm = "alpha_beta"
    THEN LET result == alpha_beta(b, 0, NegInf, PosInf, TRUE, search_depth, st)
         IN  [best_move |-> result.move, eval_score |-> result.score,
              reasoning |-> Reasoning("Alpha-beta pruning found best move (pruned {} branches)",
                                      result.st.pruned_branches),
              st |-> result.st]
    ELSE IF algorithm = "depth_limited"
    THEN LET result == depth_limited_minimax(b, search_depth, st)
         IN  [best_move |-> result.move, eval_score |-> result.score,
              reasoning |-> Reasoning("Depth-limited search to depth {}", search_depth),
              st |-> result.st]
    ELSE LET result == minimax(b, 0, TRUE, search_depth, st)
         IN  [best_move |-> result.move, eval_score |-> result.score,
              reasoning |-> Reasoning("Classic minimax algorithm", 0),
              st |-> result.st]

\* the random move drawn among the cells of the board, empty or not
apply_difficulty_adjustments_any_cell(best_move, available_moves, difficulty, move_reasoning, rnd) ==
    IF difficulty = "easy" /\ Len(available_moves) > 1 /\ rnd.fires
    THEN <<(rnd.choice - 1) \div 3, (rnd.choice - 1) % 3>>
    ELSE best_move

\* random.random() < 0.3 is rnd.fires; random.choice(available_moves) is
\* available_moves[rnd.choice]
apply_difficulty_adjustments(best_move, available_moves, difficulty, move_reasoning, rnd) ==
    IF difficulty = "easy" /\ Len(available_moves) > 1 /\ rnd.fires
    THEN available_moves[rnd.choice]
    ELSE best_move

\* _reset_stats that leaves max_depth_reached as it was
reset_instance_keeps_depth(st) ==
    [st EXCEPT !.nodes_explored = 0, !.pruned_branches = 0]

\* _reset_stats as a call on an instance that has counted before: the three
\* counters are overwritten, whatever they held
reset_instance(st) ==
    [st EXCEPT !.nodes_explored = 0, !.pruned_branches = 0, !.max_depth_reached = 0]

\* get_best_move without the single-move short-circuit
select_move_always_search(st, b, algorithm, difficulty, max_depth) ==
    LET st0 == reset_instance(st)
        search_depth == get_search_depth(difficulty, max_depth)
        available_moves == get_available_moves(b)
    IN  IF Len(available_moves) = 0
        THEN [raised |-> "No available moves on the board", done |-> TRUE,
              search_depth |-> search_depth, available_moves |-> available_moves,
              best_move |-> None, eval_score |-> 0,
              move_reasoning |-> Reasoning("", 0), fallback |-> FALSE, st |-> st0]
        ELSE LET r == run_algorithm(b, algorithm, search_depth, st0)
             IN  IF r.best_move = None
                 THEN [raised |-> "", done |-> FALSE,
                       search_depth |-> search_depth, available_moves |-> available_moves,
                       best_move |-> available_moves[1], eval_score |-> 0,
                       move_reasoning |-> Reasoning("Fallback to first available move", 0),
                       fallback |-> TRUE, st |-> r.st]
                 ELSE [raised |-> "", done |-> FALSE,
                       search_depth |-> search_depth, available_moves |-> available_moves,
                       best_move |-> r.best_move, eval_score |-> r.eval_score,
                       move_reasoning |-> r.reasoning, fallback |-> FALSE, st |-> r.st]

\* get_best_move raising the error also when a single move is left
select_move_raise_on_single(st, b, algorithm, difficulty, max_depth) ==
    LET st0 == reset_instance(st)
        search_depth == get_search_depth(difficulty, max_depth)
        available_moves == get_available_moves(b)
    IN  IF Len(available_moves) <= 1
        THEN [raised |-> "No available moves on the board", done |-> TRUE,
              search_depth |-> search_depth, available_moves |-> available_moves,
              best_move |-> None, eval_score |-> 0,
              move_reasoning |-> Reasoning("", 0), fallback |-> FALSE, st |-> st0]
        ELSE LET r == run_algorithm(b, algorithm, search_depth, st0)
             IN  IF r.best_move = None
                 THEN [raised |-> "", done |-> FALSE,
                       search_depth |-> search_depth, available_moves |-> available_moves,
                       best_move |-> available_moves[1], eval_score |-> 0,
                       move_reasoning |-> Reasoning("Fallback to first available move", 0),
                       fallback |-> TRUE, st |-> r.st]
                 ELSE [raised |-> "", done |-> FALSE,
                       search_depth |-> search_depth, available_moves |-> available_moves,
                       best_move |-> r.best_move, eval_score |-> r.eval_score,
                       move_reasoning |-> r.reasoning, fallback |-> FALSE, st |-> r.st]

\* get_best_move up to the difficulty adjustment, on an instance whose counters
\* hold st: reset, depth, edge cases, algorithm, fallback
select_move(st, b, algorithm, difficulty, max_depth) ==
    LET st0 == reset_instance(st)
        search_depth == get_search_depth(difficulty, max_depth)
        available_moves == get_available_moves(b)
    IN  IF Len(available_moves) = 0
        THEN [raised |-> "No available moves on the board", done |-> TRUE,
              search_depth |-> search_depth, available_moves |-> available_moves,
              best_move |-> None, eval_score |-> 0,
              move_reasoning |-> Reasoning("", 0), fallback |-> FALSE, st |-> st0]
        ELSE IF Len(available_moves) = 1
        THEN [raised |-> "", done |-> TRUE,
              search_depth |-> search_depth, available_moves |-> available_moves,
              best_move |-> available_moves[1], eval_score |-> 0,
              move_reasoning |-> Reasoning("Only one move available", 0),
              fallback |-> FALSE, st |-> st0]
        ELSE LET r == run_algorithm(b, algorithm, search_depth, st0)
             IN  IF r.best_move = None
                 THEN [raised |-> "", done |-> FALSE,
                       search_depth |-> search_depth, available_moves |-> available_moves,
                       best_move |-> available_moves[1], eval_score |-> 0,
                       move_reasoning |-> Reasoning("Fallback to first available move", 0),
                       fallback |-> TRUE, st |-> r.st]
                 ELSE [raised |-> "", done |-> FALSE,
                       search_depth |-> search_depth, available_moves |-> available_moves,
                       best_move |-> r.best_move, eval_score |-> r.eval_score,
                       move_reasoning |-> r.reasoning, fallback |-> FALSE, st |-> r.st]

\* the rest of get_best_move: difficulty adjustment and the final analysis
finish_move(sel, difficulty, rnd) ==
    IF sel.done
    THEN [raised |-> sel.raised, move |-> sel.best_move,
          analysis |-> create_analysis(sel.st, sel.move_reasoning, sel.eval_score),
          search_depth |-> sel.search_depth, fallback |-> FALSE, st |-> sel.st]
    ELSE LET final_move == apply_difficulty_adjustments(sel.best_move, sel.available_moves,
                                                        difficulty, sel.move_reasoning, rnd)
         IN  [raised |-> "", move |-> final_move,
              analysis |-> create_analysis(sel.st, sel.move_reasoning, sel.eval_score),
              search_depth |-> sel.search_depth, fallback |-> sel.fallback, st |-> sel.st]

get_best_move(st, b, algorithm, difficulty, max_depth, rnd) ==
    finish_move(select_move(st, b, algorithm, difficulty, max_depth), difficulty, rnd)

\* the outcomes of the random source that get_best_move can observe
NoRandom == [fires |-> FALSE, choice |-> 1]
RandomOutcomes(sel, difficulty) ==
    IF ~sel.done /\ difficulty = "easy" /\ Len(sel.available_moves) > 1
    THEN {NoRandom} \cup {[fires |-> TRUE, choice |-> i] : i \in 1..Len(sel.available_moves)}
    ELSE {NoRandom}

(***************************************************************************)
(* State.                                                                  *)
(***************************************************************************)
VARIABLES
    board,       \* the board the caller holds
    stats,       \* nodes_explored, pruned_branches, max_depth_reached of the instance
    call,        \* the last call made and its arguments
    ret,         \* what the last call returned
    prev,        \* call, ret and stats of the call before the last one
    moves_made,  \* the move counter of a game loop
    tasks        \* get_best_move calls in progress at the same time, and the
                 \* counters of the instances they run on

vars == <<board, stats, call, ret, prev, moves_made, tasks>>

NumEmpty(b) == Cardinality({rc \in Idx \X Idx : b[rc[1]][rc[2]] = EMPTY})

AllBoards == [Idx -> [Idx -> Marks]]
EmptyBoard == [row \in Idx |-> [col \in Idx |-> EMPTY]]

NoCall ==
    [op |-> "none", is_ai_turn |-> TRUE, max_depth |-> NoneInt, depth |-> 0,
     algorithm |-> "", difficulty |-> "",
     board |-> EmptyBoard, move |-> None, player |-> "", rnd |-> NoRandom]
NoAnalysis == create_analysis(reset_stats, Reasoning("", 0), 0)
NoRet ==
    [raised |-> "", move |-> None, score |-> 0, moves |-> << >>,
     analysis |-> NoAnalysis, search_depth |-> 0, fallback |-> FALSE,
     board |-> EmptyBoard, valid |-> FALSE, status |-> 0,
     game_over |-> FALSE, winner |-> "None"]
NoPrev == [call |-> NoCall, ret |-> NoRet, stats |-> reset_stats]
NoTasks == [counters |-> << >>, task |-> << >>]

InitOn(boards) ==
    /\ board \in boards
    /\ stats = reset_stats
    /\ call = NoCall
    /\ ret = NoRet
    /\ prev = NoPrev
    /\ moves_made = 0
    /\ tasks = NoTasks

Remember == prev' = [call |-> call, ret |-> ret, stats |-> stats]

(***************************************************************************)
(* Direct calls of the search functions, as test_ai_algorithms.py makes    *)
(* them: each on freshly reset statistics.                                 *)
(***************************************************************************)
CallMinimax(is_ai_turn, max_depth) ==
    /\ call.op = "none"
    /\ \E r \in {minimax(board, 0, is_ai_turn, max_depth, reset_stats)} :
          /\ stats' = r.st
          /\ ret' = [NoRet EXCEPT !.move = r.move, !.score = r.score]
    /\ call' = [NoCall EXCEPT !.op = "minimax", !.is_ai_turn = is_ai_turn,
                              !.max_depth = SomeInt(max_depth)]
    /\ Remember
    /\ UNCHANGED <<tasks, board, moves_made>>

\* _reset_stats() and alpha_beta with the full window, on the board, side to move
\* and depth limit of the minimax call before it
CallAlphaBeta ==
    /\ call.op = "minimax"
    /\ \E max_depth \in call.max_depth :
       \E r \in {alpha_beta(board, 0, NegInf, PosInf, call.is_ai_turn, max_depth, reset_stats)} :
          /\ stats' = r.st
          /\ ret' = [NoRet EXCEPT !.move = r.move, !.score = r.score]
    /\ call' = [call EXCEPT !.op = "alpha_beta"]
    /\ Remember
    /\ UNCHANGED <<tasks, board, moves_made>>

CallDepthLimited(max_depth) ==
    /\ call.op = "none"
    /\ \E r \in {depth_limited_minimax(board, max_depth, reset_stats)} :
          /\ stats' = r.st
          /\ ret' = [NoRet EXCEPT !.move = r.move, !.score = r.score]
    /\ call' = [NoCall EXCEPT !.op = "depth_limited_minimax", !.is_ai_turn = TRUE,
                              !.max_depth = SomeInt(max_depth)]
    /\ Remember
    /\ UNCHANGED <<tasks, board, moves_made>>

\* SpecSearch: every board with at most MaxEmpty empty cells, either side to move
SearchBoards == {b \in AllBoards : NumEmpty(b) <= MaxEmpty}
InitSearch == InitOn(SearchBoards)
NextSearch ==
    \/ \E is_ai_turn \in BOOLEAN, max_depth \in 0..MaxDepthArg :
          CallMinimax(is_ai_turn, max_depth)
    \/ CallAlphaBeta
SpecSearch == InitSearch /\ [][NextSearch]_vars

\* SpecTactics: the boards whose marks alternate, whichever side moved first,
\* finished games included, with the AI as maximizer; and the two boards of
\* test_minimax_winning_move and test_minimax_blocking_move
ToBoard(rows) == [row \in Idx |-> [col \in Idx |-> rows[row + 1][col + 1]]]
WinningMoveBoard == ToBoard(<< <<"O", "O", "">>, <<"X", "X", "">>, <<"", "", "">> >>)
BlockingMoveBoard == ToBoard(<< <<"X", "X", "">>, <<"O", "", "">>, <<"", "", "">> >>)
Alternating(b) ==
    /\ count(b, "X") <= count(b, "O") + 1
    /\ count(b, "O") <= count(b, "X") + 1
TacticsBoards ==
    {b \in AllBoards : NumEmpty(b) <= TacticsMaxEmpty /\ Alternating(b)}
        \cup {WinningMoveBoard, BlockingMoveBoard}
\* the depth limits tried, and the default max_depth = 9 the tests pass
TacticsDepths == (1..TacticsMaxDepth) \cup {DefaultMaxDepth}
InitTactics == InitOn(TacticsBoards)
NextTactics ==
    \/ \E max_depth \in TacticsDepths : CallMinimax(TRUE, max_depth)
    \/ CallAlphaBeta
    \/ \E max_depth \in TacticsDepths : CallDepthLimited(max_depth)
SpecTactics == InitTactics /\ [][NextTactics]_vars

(***************************************************************************)
(* get_best_move calls on one AIAlgorithms instance.                       *)
(***************************************************************************)
Algorithms == {"minimax", "alpha_beta", "depth_limited", "other"}
Difficulties == {"easy", "medium", "hard", "other"}
DepthOverrides == {NoneInt} \cup {SomeInt(d) : d \in 0..MaxOverride}

GetBestMove(algorithm, difficulty, max_depth) ==
    /\ call.op = "none"
    /\ \E sel \in {select_move(stats, board, algorithm, difficulty, max_depth)} :
       \E rnd \in RandomOutcomes(sel, difficulty) :
       \E r \in {finish_move(sel, difficulty, rnd)} :
          /\ stats' = r.st
          /\ ret' = [NoRet EXCEPT !.raised = r.raised, !.move = r.move,
                                  !.score = r.analysis.evaluation_score,
                                  !.analysis = r.analysis,
                                  !.search_depth = r.search_depth,
                                  !.fallback = r.fallback]
          /\ call' = [NoCall EXCEPT !.op = "get_best_move", !.algorithm = algorithm,
                                    !.difficulty = difficulty, !.max_depth = max_depth,
                                    !.board = board, !.rnd = rnd]
    /\ Remember
    /\ UNCHANGED <<tasks, board, moves_made>>

BestBoards == {b \in AllBoards : NumEmpty(b) <= BestMaxEmpty /\ is_valid_board(b)}
Init == InitOn(BestBoards)
Next ==
    \E algorithm \in Algorithms, difficulty \in Difficulties, max_depth \in DepthOverrides :
        GetBestMove(algorithm, difficulty, max_depth)
Spec == Init /\ [][Next]_vars

(***************************************************************************)
(* test_ai_never_loses_optimal_play: the AI (O) moves first with            *)
(* get_best_move(board, "minimax", "hard"); the opponent replies with any   *)
(* available move, the available[0] of the test among them.                 *)
(***************************************************************************)
AITurn ==
    /\ ~is_game_over(board)
    /\ moves_made < 9
    /\ moves_made % 2 = 0
    /\ \E r \in {get_best_move(stats, board, "minimax", "hard", NoneInt, NoRandom)} :
          /\ stats' = r.st
          /\ ret' = [NoRet EXCEPT !.raised = r.raised, !.move = r.move,
                                  !.score = r.analysis.evaluation_score,
                                  !.analysis = r.analysis,
                                  !.search_depth = r.search_depth,
                                  !.fallback = r.fallback]
          /\ board' = make_move(board, r.move, "O")
    /\ call' = [NoCall EXCEPT !.op = "get_best_move", !.algorithm = "minimax",
                              !.difficulty = "hard"]
    /\ Remember
    /\ moves_made' = moves_made + 1
    /\ UNCHANGED tasks

HumanTurn ==
    /\ ~is_game_over(board)
    /\ moves_made < 9
    /\ moves_made % 2 = 1
    /\ \E available \in {get_available_moves(board)} :
       \E i \in 1..Len(available) :
          board' = make_move(board, available[i], "X")
    /\ moves_made' = moves_made + 1
    /\ UNCHANGED <<tasks, stats, call, ret, prev>>

InitGame == InitOn({EmptyBoard})
NextGame == AITurn \/ HumanTurn
SpecGame == InitGame /\ [][NextGame]_vars

(***************************************************************************)
(* Direct calls of the board rules and of the evaluation, on any 3x3 board. *)
(***************************************************************************)
CallEvaluatePosition(depth) ==
    /\ call.op = "none"
    /\ ret' = [NoRet EXCEPT !.score = evaluate_position(board, depth)]
    /\ call' = [NoCall EXCEPT !.op = "evaluate_position", !.depth = depth]
    /\ Remember
    /\ UNCHANGED <<tasks, board, stats, moves_made>>

CallGetAvailableMoves ==
    /\ call.op = "none"
    /\ ret' = [NoRet EXCEPT !.moves = get_available_moves(board)]
    /\ call' = [NoCall EXCEPT !.op = "get_available_moves"]
    /\ Remember
    /\ UNCHANGED <<tasks, board, stats, moves_made>>

InitEngine == InitOn(AllBoards)
NextEngine ==
    \/ \E depth \in 0..MaxEvalDepth : CallEvaluatePosition(depth)
    \/ CallGetAvailableMoves
SpecEngine == InitEngine /\ [][NextEngine]_vars

(***************************************************************************)
(* is_valid_board on any grid of strings: a list of rows, each a list of    *)
(* strings, indexed from 0.                                                 *)
(***************************************************************************)
CallIsValidBoard ==
    /\ call.op = "none"
    /\ ret' = [NoRet EXCEPT !.valid = is_valid_board(board)]
    /\ call' = [NoCall EXCEPT !.op = "is_valid_board"]
    /\ Remember
    /\ UNCHANGED <<tasks, board, stats, moves_made>>

\* the grids made from a 3x3 board: the board, the board with a cell that is
\* not a mark, with a row of 2 or of 4 cells, with 2 or with 4 rows
GridsOf(b) ==
    {b}
    \cup {[b EXCEPT ![m[1]][m[2]] = "Y"] : m \in Idx \X Idx}
    \cup {[b EXCEPT ![row] = [col \in 0..1 |-> b[row][col]]] : row \in Idx}
    \cup {[b EXCEPT ![row] = [col \in 0..3 |-> IF col < 3 THEN b[row][col] ELSE EMPTY]] :
              row \in Idx}
    \cup {[row \in 0..1 |-> b[row]], [row \in 0..3 |-> IF row < 3 THEN b[row] ELSE b[0]]}
GridBoards == {b \in AllBoards : 9 - NumEmpty(b) <= GridMaxMarks}
InitGrid == \E b \in GridBoards : InitOn(GridsOf(b))
NextGrid == CallIsValidBoard
SpecGrid == InitGrid /\ [][NextGrid]_vars

(***************************************************************************)
(* A session: any number of get_best_move calls on one AIAlgorithms         *)
(* instance, as in test_difficulty_levels.  The caller steps through the    *)
(* end of a finished game: each call is made on the full board with the     *)
(* marks of its last k cells taken back.                                    *)
(***************************************************************************)
taken_back(b, k) ==
    [row \in Idx |-> [col \in Idx |-> IF 3 * row + col >= 9 - k THEN EMPTY ELSE b[row][col]]]

SessionCall(k, algorithm, difficulty, max_depth) ==
    /\ \E b \in {taken_back(board, k)} :
       \E sel \in {select_move(stats, b, algorithm, difficulty, max_depth)} :
       \E rnd \in RandomOutcomes(sel, difficulty) :
       \E r \in {finish_move(sel, difficulty, rnd)} :
          /\ stats' = r.st
          /\ ret' = [NoRet EXCEPT !.raised = r.raised, !.move = r.move,
                                  !.score = r.analysis.evaluation_score,
                                  !.analysis = r.analysis,
                                  !.search_depth = r.search_depth,
                                  !.fallback = r.fallback]
          /\ call' = [NoCall EXCEPT !.op = "get_best_move", !.algorithm = algorithm,
                                    !.difficulty = difficulty, !.max_depth = max_depth,
                                    !.board = b, !.rnd = rnd]
    \* the counters the instance held when the call began
    /\ prev' = [NoPrev EXCEPT !.stats = stats]
    /\ UNCHANGED <<tasks, board, moves_made>>

\* the finished games: the drawn boards that is_valid_board accepts
SessionBoards == {b \in AllBoards : is_draw(b) /\ is_valid_board(b)}
InitSession == InitOn(SessionBoards)
NextSession ==
    \E k \in 0..SessionMaxEmpty, algorithm \in Algorithms, difficulty \in {"easy", "hard"},
       max_depth \in {NoneInt, SomeInt(1)} :
        SessionCall(k, algorithm, difficulty, max_depth)
SpecSession == InitSession /\ [][NextSession]_vars

(***************************************************************************)
(* Calls seen from the caller's side: the board the caller passes is a list *)
(* of row objects, and what the callee writes through them the caller sees. *)
(***************************************************************************)
CallMakeMove(move, player) ==
    /\ call.op = "none"
    /\ \E r \in {make_move_on_heap(heap_of(board), caller_rows, move, player)} :
          /\ board' = board_of(r.heap, caller_rows)
          /\ ret' = [NoRet EXCEPT !.board = board_of(r.heap, r.rows)]
    /\ call' = [NoCall EXCEPT !.op = "make_move", !.board = board,
                              !.move = move, !.player = player]
    /\ Remember
    /\ UNCHANGED <<tasks, stats, moves_made>>

\* the moves the root of a search tries on the board it was given: none when
\* the search stops at the root
root_moves(b, max_depth) ==
    IF should_stop_search(b, 0, max_depth) THEN << >> ELSE get_available_moves(b)

\* the caller's board after the root of a search has tried the moves
board_after(b, moves) ==
    board_of(moves_on_heap(heap_of(b), caller_rows, moves, 1, AI_PLAYER), caller_rows)

SearchMinimax(max_depth) ==
    /\ call.op = "none"
    /\ \E r \in {minimax(board, 0, TRUE, max_depth, reset_stats)} :
          /\ stats' = r.st
          /\ ret' = [NoRet EXCEPT !.move = r.move, !.score = r.score]
    /\ board' = board_after(board, root_moves(board, max_depth))
    /\ call' = [NoCall EXCEPT !.op = "minimax", !.max_depth = SomeInt(max_depth),
                              !.board = board]
    /\ Remember
    /\ UNCHANGED <<tasks, moves_made>>

SearchAlphaBeta(max_depth) ==
    /\ call.op = "none"
    /\ \E r \in {alpha_beta(board, 0, NegInf, PosInf, TRUE, max_depth, reset_stats)} :
          /\ stats' = r.st
          /\ ret' = [NoRet EXCEPT !.move = r.move, !.score = r.score]
    /\ board' = board_after(board, root_moves(board, max_depth))
    /\ call' = [NoCall EXCEPT !.op = "alpha_beta", !.max_depth = SomeInt(max_depth),
                              !.board = board]
    /\ Remember
    /\ UNCHANGED <<tasks, moves_made>>

SearchGetBestMove(algorithm, difficulty) ==
    /\ call.op = "none"
    /\ \E sel \in {select_move(stats, board, algorithm, difficulty, NoneInt)} :
       \E r \in {finish_move(sel, difficulty, NoRandom)} :
          /\ stats' = r.st
          /\ ret' = [NoRet EXCEPT !.raised = r.raised, !.move = r.move,
                                  !.score = r.analysis.evaluation_score,
                                  !.analysis = r.analysis,
                                  !.search_depth = r.search_depth,
                                  !.fallback = r.fallback]
          /\ board' = board_after(board, IF sel.done THEN << >>
                                         ELSE root_moves(board, sel.search_depth))
    /\ call' = [NoCall EXCEPT !.op = "get_best_move", !.algorithm = algorithm,
                              !.difficulty = difficulty, !.board = board]
    /\ Remember
    /\ UNCHANGED <<tasks, moves_made>>

\* SpecFrame: every board with at most FrameMaxEmpty empty cells; make_move with
\* any cell, occupied or not, and any mark
FrameBoards == {b \in AllBoards : NumEmpty(b) <= FrameMaxEmpty}
InitFrame == InitOn(FrameBoards)
NextFrame ==
    \/ \E move \in Idx \X Idx, player \in {HUMAN_PLAYER, AI_PLAYER} :
          CallMakeMove(move, player)
    \/ \E max_depth \in {1, DefaultMaxDepth} : SearchMinimax(max_depth)
    \/ \E max_depth \in {1, DefaultMaxDepth} : SearchAlphaBeta(max_depth)
    \/ \E algorithm \in Algorithms : SearchGetBestMove(algorithm, "hard")
SpecFrame == InitFrame /\ [][NextFrame]_vars

(***************************************************************************)
(* minimax as it calls itself: on any board, at any depth, for either side, *)
(* with the depth limit at the node, one or two levels below it, or the     *)
(* default of 9.                                                            *)
(***************************************************************************)
CallMinimaxNode(depth, is_ai_turn, max_depth) ==
    /\ call.op = "none"
    /\ \E r \in {minimax(board, depth, is_ai_turn, max_depth, reset_stats)} :
          /\ stats' = r.st
          /\ ret' = [NoRet EXCEPT !.move = r.move, !.score = r.score]
    /\ call' = [NoCall EXCEPT !.op = "minimax", !.depth = depth,
                              !.is_ai_turn = is_ai_turn,
                              !.max_depth = SomeInt(max_depth), !.board = board]
    /\ Remember
    /\ UNCHANGED <<tasks, board, moves_made>>

NodeBoards == {b \in AllBoards : NumEmpty(b) <= NodeMaxEmpty}
NodeLimits(depth) == {depth, depth + 1, depth + 2, DefaultMaxDepth}
InitNode == InitOn(NodeBoards)
NextNode ==
    \E depth \in 0..NodeMaxDepth, is_ai_turn \in BOOLEAN :
        \E max_depth \in NodeLimits(depth) :
            CallMinimaxNode(depth, is_ai_turn, max_depth)
SpecNode == InitNode /\ [][NextNode]_vars

(***************************************************************************)
(* POST /move: the request carries a board, an algorithm, a difficulty and  *)
(* an optional max_depth; the route answers 400 or applies the AI's move    *)
(* with the mark O and answers 200.                                         *)
(***************************************************************************)
RouteAlgorithms == {"minimax", "alpha_beta", "depth_limited"}
RouteDifficulties == {"easy", "medium", "hard"}

\* winner of the response: check_winner, or "draw"
response_winner(b) ==
    IF ~is_game_over(b) THEN "None"
    ELSE IF check_winner(b) = "None" /\ is_draw(b) THEN "draw"
    ELSE check_winner(b)

PostMove(algorithm, difficulty, max_depth) ==
    /\ call.op = "none"
    /\ IF ~is_valid_board(board)
       THEN /\ ret' = [NoRet EXCEPT !.status = 400, !.raised = "INVALID_BOARD"]
            /\ call' = [NoCall EXCEPT !.op = "post_move", !.algorithm = algorithm,
                                      !.difficulty = difficulty, !.max_depth = max_depth,
                                      !.board = board]
            /\ UNCHANGED stats
       ELSE IF is_game_over(board)
       THEN /\ ret' = [NoRet EXCEPT !.status = 400, !.raised = "GAME_OVER",
                                    !.winner = response_winner(board)]
            /\ call' = [NoCall EXCEPT !.op = "post_move", !.algorithm = algorithm,
                                      !.difficulty = difficulty, !.max_depth = max_depth,
                                      !.board = board]
            /\ UNCHANGED stats
       ELSE \E sel \in {select_move(reset_stats, board, algorithm, difficulty, max_depth)} :
            \E rnd \in RandomOutcomes(sel, difficulty) :
            \E r \in {finish_move(sel, difficulty, rnd)} :
               /\ call' = [NoCall EXCEPT !.op = "post_move", !.algorithm = algorithm,
                                         !.difficulty = difficulty, !.max_depth = max_depth,
                                         !.board = board, !.rnd = rnd]
               /\ stats' = r.st
               /\ IF r.raised # ""
                  THEN ret' = [NoRet EXCEPT !.status = 400, !.raised = "NO_MOVES_AVAILABLE"]
                  ELSE \E new_board \in {make_move(board, r.move, "O")} :
                       ret' = [NoRet EXCEPT !.status = 200, !.move = r.move,
                                            !.score = r.analysis.evaluation_score,
                                            !.analysis = r.analysis,
                                            !.search_depth = r.search_depth,
                                            !.fallback = r.fallback,
                                            !.board = new_board,
                                            !.game_over = is_game_over(new_board),
                                            !.winner = response_winner(new_board)]
    /\ Remember
    /\ UNCHANGED <<tasks, board, moves_made>>

RouteBoards == {b \in AllBoards : NumEmpty(b) <= RouteMaxEmpty}
InitRoute == InitOn(RouteBoards)
NextRoute ==
    \E algorithm \in RouteAlgorithms, difficulty \in RouteDifficulties,
       max_depth \in {NoneInt, SomeInt(2)} :
        PostMove(algorithm, difficulty, max_depth)
SpecRoute == InitRoute /\ [][NextRoute]_vars

(***************************************************************************)
(* Two get_best_move calls in progress at the same time.  A call made       *)
(* through the /move route runs on the AIAlgorithms instance the route      *)
(* constructs for the request; the other calls run on one instance their    *)
(* caller holds, as the tests do with self.ai.  A call takes three steps:   *)
(* it resets the counters of its instance, it searches, it reports.         *)
(***************************************************************************)
TaskIds == {1, 2}
held_instance == 0
\* one module-level AIAlgorithms instance serving every request
module_level_instance(t) == held_instance
\* ai_algorithms = AIAlgorithms() in the route: an instance of the request's own
request_instance(t) == t
InstanceIds == {held_instance} \cup {request_instance(t) : t \in TaskIds}

new_task(via, t, b, algorithm, difficulty) ==
    [pc |-> "reset", via |-> via,
     instance |-> IF via = "route" THEN request_instance(t) ELSE held_instance,
     board |-> b, algorithm |-> algorithm, difficulty |-> difficulty,
     raised |-> "", best_move |-> None, eval_score |-> 0,
     move_reasoning |-> Reasoning("", 0), searched |-> FALSE,
     move |-> None, analysis |-> NoAnalysis]

\* get_best_move up to the reset of the statistics
TaskReset(t) ==
    /\ t \in DOMAIN tasks.task
    /\ tasks.task[t].pc = "reset"
    /\ tasks' = [tasks EXCEPT !.counters[tasks.task[t].instance] = reset_instance(@),
                              !.task[t].pc = "search"]
    /\ UNCHANGED <<board, stats, call, ret, prev, moves_made>>

\* get_best_move from the search depth to the fallback
TaskSearch(t) ==
    /\ t \in DOMAIN tasks.task
    /\ tasks.task[t].pc = "search"
    /\ \E me \in {tasks.task[t]} :
       \E search_depth \in {get_search_depth(me.difficulty, NoneInt)} :
       \E available_moves \in {get_available_moves(me.board)} :
          IF Len(available_moves) = 0
          THEN tasks' = [tasks EXCEPT !.task[t].pc = "done",
                                      !.task[t].raised = "No available moves on the board"]
          ELSE IF Len(available_moves) = 1
          THEN tasks' = [tasks EXCEPT
                    !.task[t].pc = "report",
                    !.task[t].best_move = available_moves[1],
                    !.task[t].move_reasoning = Reasoning("Only one move available", 0)]
          ELSE \E r \in {run_algorithm(me.board, me.algorithm, search_depth,
                                       tasks.counters[me.instance])} :
               tasks' = [tasks EXCEPT
                    !.counters[me.instance] = r.st,
                    !.task[t].pc = "report",
                    !.task[t].searched = TRUE,
                    !.task[t].best_move =
                        IF r.best_move = None THEN available_moves[1] ELSE r.best_move,
                    !.task[t].eval_score =
                        IF r.best_move = None THEN 0 ELSE r.eval_score,
                    !.task[t].move_reasoning =
                        IF r.best_move = None
                        THEN Reasoning("Fallback to first available move", 0)
                        ELSE r.reasoning]
    /\ UNCHANGED <<board, stats, call, ret, prev, moves_made>>

\* get_best_move from the difficulty adjustment to the return; the single-move
\* return builds its analysis the same way
TaskReport(t) ==
    /\ t \in DOMAIN tasks.task
    /\ tasks.task[t].pc = "report"
    /\ \E me \in {tasks.task[t]} :
          tasks' = [tasks EXCEPT
              !.task[t].pc = "done",
              !.task[t].move =
                  IF me.searched
                  THEN apply_difficulty_adjustments(me.best_move,
                           get_available_moves(me.board), me.difficulty,
                           me.move_reasoning, NoRandom)
                  ELSE me.best_move,
              !.task[t].analysis =
                  create_analysis(tasks.counters[me.instance], me.move_reasoning,
                                  me.eval_score)]
    /\ UNCHANGED <<board, stats, call, ret, prev, moves_made>>

ConcurrentAlgorithms == {"minimax", "alpha_beta"}
InitConcurrent ==
    /\ board \in SessionBoards
    /\ stats = reset_stats
    /\ call = NoCall
    /\ ret = NoRet
    /\ prev = NoPrev
    /\ moves_made = 0
    /\ \E via \in [TaskIds -> {"route", "held"}],
          k \in [TaskIds -> 0..ConcurrentMaxEmpty],
          algorithm \in [TaskIds -> ConcurrentAlgorithms] :
          tasks = [counters |-> [i \in InstanceIds |-> reset_stats],
                   task |-> [t \in TaskIds |->
                                new_task(via[t], t, taken_back(board, k[t]),
                                         algorithm[t], "medium")]]
NextConcurrent ==
    \E t \in TaskIds :
        \/ TaskReset(t)
        \/ TaskSearch(t)
        \/ TaskReport(t)
SpecConcurrent == InitConcurrent /\ [][NextConcurrent]_vars

(***************************************************************************)
(* Properties.                                                             *)
(***************************************************************************)
Cells == Idx \X Idx
EmptyCells(b) == {m \in Cells : b[m[1]][m[2]] = EMPTY}
LineCells(i) == {winning_combinations[i][k] : k \in 1..3}
\* some line of the board is held entirely by mark
HasLine(b, mark) ==
    \E i \in 1..Len(winning_combinations) : \A m \in LineCells(i) : b[m[1]][m[2]] = mark
\* the empty cells that complete a line of mark
WinningCells(b, mark) ==
    {m \in EmptyCells(b) :
        \E i \in 1..Len(winning_combinations) :
            /\ m \in LineCells(i)
            /\ \A o \in LineCells(i) \ {m} : b[o[1]][o[2]] = mark}
\* the depth limit of the last call is at least d
DepthLimitAtLeast(d) == call.max_depth # NoneInt /\ \A x \in call.max_depth : x >= d
DepthLimitIs(d) == call.max_depth = SomeInt(d)
RowMajor(m) == 3 * m[1] + m[2]

\* C1: alpha_beta started with alpha = -infinity and beta = +infinity returns the
\* evaluation score minimax returns on the same board, side to move and depth
\* limit, also when the positional heuristic is used at the leaves
C1_AlphaBetaScoreEqualsMinimax ==
    call.op = "alpha_beta" =>
        /\ prev.call = [call EXCEPT !.op = "minimax"]
        /\ ret.score = prev.ret.score

\* a search where branches were cut, fewer nodes were visited and the depth limit
\* stopped the search above the end of the game
C1_Witness ==
    /\ call.op = "alpha_beta"
    /\ ~is_game_over(board)
    /\ DepthLimitIs(2) /\ NumEmpty(board) = 4
    /\ stats.pruned_branches > 0
    /\ stats.nodes_explored < prev.stats.nodes_explored
    /\ ret.score = prev.ret.score
    /\ ret.score \notin {0, 99, -98}

\* C2: in a game from the empty board where the AI (O) moves first with
\* get_best_move(minimax, hard) and the opponent replies in any way, X never
\* completes a line, and a finished game is an O win or a draw
C2_AINeverLoses ==
    /\ ~HasLine(board, HUMAN_PLAYER)
    /\ check_winner(board) # HUMAN_PLAYER
    /\ (moves_made >= 9 => is_game_over(board))
    /\ (is_game_over(board) => HasLine(board, AI_PLAYER) \/ EmptyCells(board) = {})

\* a game played to a draw over nine moves
C2_Witness ==
    /\ moves_made = 9
    /\ is_draw(board)
    /\ ~HasLine(board, AI_PLAYER)
    /\ call.op = "get_best_move"
    /\ count(board, AI_PLAYER) = 5

\* C3: from freshly reset statistics, alpha_beta with the full window counts at
\* most as many nodes as minimax on the same board, side to move and depth limit
C3_AlphaBetaNodesAtMostMinimax ==
    call.op = "alpha_beta" =>
        /\ prev.call = [call EXCEPT !.op = "minimax"]
        /\ stats.nodes_explored <= prev.stats.nodes_explored

\* a search to the end of the game with the opponent to move where alpha_beta
\* visited strictly fewer nodes
C3_Witness ==
    /\ call.op = "alpha_beta"
    /\ ~call.is_ai_turn
    /\ NumEmpty(board) = 3 /\ DepthLimitIs(3)
    /\ stats.nodes_explored < prev.stats.nodes_explored
    /\ prev.stats.nodes_explored > 10

\* C4: on a board that is not game over where some empty cell completes a line
\* of O, each of minimax, alpha_beta and depth_limited_minimax with the AI as
\* maximizer and depth limit >= 2 returns a move completing an O line with
\* score > 90; on [[O,O,_],[X,X,_],[_,_,_]] the move is (0,2)
C4_ImmediateWinTaken ==
    ( /\ call.op \in {"minimax", "alpha_beta", "depth_limited_minimax"}
      /\ call.is_ai_turn
      /\ DepthLimitAtLeast(2)
      /\ ~is_game_over(board)
      /\ WinningCells(board, AI_PLAYER) # {} )
    => /\ ret.move \in WinningCells(board, AI_PLAYER)
       /\ ret.score > 90
       /\ (board = WinningMoveBoard => ret.move = Move(0, 2))

\* alpha_beta on the board of test_minimax_winning_move with depth limit 9
C4_Witness ==
    /\ call.op = "alpha_beta"
    /\ board = WinningMoveBoard
    /\ DepthLimitIs(DefaultMaxDepth)
    /\ ret.move = Move(0, 2)
    /\ ret.score = 99

\* C5 (as stated): when O has no immediately winning move and exactly one empty
\* cell completes a line of X, minimax with the AI as maximizer and depth limit
\* >= 2 returns that cell, on any board whatever
C5_BlockTakenOnAnyBoard ==
    ( /\ call.op = "minimax"
      /\ call.is_ai_turn
      /\ DepthLimitAtLeast(2)
      /\ WinningCells(board, AI_PLAYER) = {}
      /\ Cardinality(WinningCells(board, HUMAN_PLAYER)) = 1 )
    => ret.move \in WinningCells(board, HUMAN_PLAYER)

\* C5: on a board that is not game over, when O has no immediately winning move
\* and exactly one empty cell completes a line of X, minimax with the AI as
\* maximizer and depth limit >= 2 returns that cell, also when X can still force
\* a win afterwards; on [[X,X,_],[O,_,_],[_,_,_]] the move is (0,2)
C5_BlockTaken ==
    ( /\ call.op = "minimax"
      /\ call.is_ai_turn
      /\ DepthLimitAtLeast(2)
      /\ ~is_game_over(board)
      /\ WinningCells(board, AI_PLAYER) = {}
      /\ Cardinality(WinningCells(board, HUMAN_PLAYER)) = 1 )
    => /\ ret.move \in WinningCells(board, HUMAN_PLAYER)
       /\ (board = BlockingMoveBoard => ret.move = Move(0, 2))

\* the block is returned although the search sees that X wins all the same
C5_Witness ==
    /\ call.op = "minimax"
    /\ call.is_ai_turn
    /\ DepthLimitAtLeast(4)
    /\ ~is_game_over(board)
    /\ WinningCells(board, AI_PLAYER) = {}
    /\ Cardinality(WinningCells(board, HUMAN_PLAYER)) = 1
    /\ ret.move \in WinningCells(board, HUMAN_PLAYER)
    /\ ret.score = LOSE_SCORE + 4

\* C6: on a board with exactly one empty cell get_best_move returns that cell,
\* score 0 and the rationale 'Only one move available', and the analysis and the
\* instance count no node, no pruned branch and depth 0, for every algorithm,
\* difficulty and depth override
C6_SingleMoveShortCircuit ==
    (call.op = "get_best_move" /\ Cardinality(EmptyCells(board)) = 1) =>
        /\ ret.raised = ""
        /\ EmptyCells(board) = {ret.move}
        /\ ret.analysis.evaluation_score = 0
        /\ ret.analysis.move_reasoning = Reasoning("Only one move available", 0)
        /\ ret.analysis.nodes_explored = 0
        /\ ret.analysis.pruned_branches = 0
        /\ ret.analysis.max_depth_reached = 0
        /\ stats = reset_stats
        /\ ~ret.fallback

\* the short-circuit on a board that is not game over, easy difficulty, alpha_beta
C6_Witness ==
    /\ call.op = "get_best_move"
    /\ call.difficulty = "easy" /\ call.algorithm = "alpha_beta"
    /\ call.max_depth = SomeInt(2)
    /\ Cardinality(EmptyCells(board)) = 1
    /\ ~is_game_over(board)
    /\ board[2][2] = EMPTY
    /\ ret.move = Move(2, 2)
    /\ ret.analysis.nodes_explored = 0

\* C7: get_best_move raises the 'no moves available' error exactly when the board
\* has no empty cell; on every other board it returns a move and an analysis for
\* every algorithm string, difficulty string and depth override
C7_NoMovesErrorIffFull ==
    call.op = "get_best_move" =>
        /\ (ret.raised # "" <=> EmptyCells(board) = {})
        /\ ret.raised \in {"", "No available moves on the board"}
        /\ (EmptyCells(board) # {} => ret.move \in Cells)

\* the error on a full board, and a move for unknown algorithm and difficulty strings
C7_Witness ==
    /\ call.op = "get_best_move"
    /\ EmptyCells(board) = {}
    /\ is_draw(board)
    /\ ret.raised = "No available moves on the board"
    /\ call.algorithm = "other" /\ call.difficulty = "other"

\* C8: the search depth is the override when given, else 3 for easy, 6 for
\* medium, 9 for hard and 6 for any other difficulty; and when it is positive the
\* max_depth_reached of the analysis and of the instance does not exceed it
C8_SearchDepthRespected ==
    call.op = "get_best_move" =>
        /\ ret.search_depth =
              (IF call.max_depth # NoneInt THEN CHOOSE d \in call.max_depth : TRUE
               ELSE IF call.difficulty = "easy" THEN 3
               ELSE IF call.difficulty = "medium" THEN 6
               ELSE IF call.difficulty = "hard" THEN 9
               ELSE 6)
        /\ (ret.search_depth > 0 =>
               /\ ret.analysis.max_depth_reached <= ret.search_depth
               /\ stats.max_depth_reached <= ret.search_depth)

\* a search that the depth override stopped above the end of the game
C8_Witness ==
    /\ call.op = "get_best_move"
    /\ call.algorithm = "depth_limited"
    /\ call.max_depth = SomeInt(2)
    /\ ret.search_depth = 2
    /\ ret.analysis.max_depth_reached = 2
    /\ ret.analysis.nodes_explored = 10
    /\ Cardinality(EmptyCells(board)) = 3

\* the positional sum of the claim: centre +3/-3, each corner +2/-2, edges 0
PositionalSum(b) ==
    LET Corners == {<<0, 0>>, <<0, 2>>, <<2, 0>>, <<2, 2>>}
        Held(S, mark) == Cardinality({m \in S : b[m[1]][m[2]] = mark})
    IN  3 * Held({<<1, 1>>}, AI_PLAYER) - 3 * Held({<<1, 1>>}, HUMAN_PLAYER)
        + 2 * Held(Corners, AI_PLAYER) - 2 * Held(Corners, HUMAN_PLAYER)

\* C9: evaluate_position(board, d) is 100 - d when check_winner finds an O line,
\* -100 + d when it finds an X line, 0 on a full board with no complete line
\* (is_draw is then true), and otherwise the positional sum
C9_EvaluateByCase ==
    call.op = "evaluate_position" =>
        /\ (check_winner(board) = AI_PLAYER =>
               HasLine(board, AI_PLAYER) /\ ret.score = 100 - call.depth)
        /\ (check_winner(board) = HUMAN_PLAYER =>
               HasLine(board, HUMAN_PLAYER) /\ ret.score = -100 + call.depth)
        /\ (check_winner(board) = "None" =>
               /\ ~HasLine(board, AI_PLAYER) /\ ~HasLine(board, HUMAN_PLAYER)
               /\ (EmptyCells(board) = {} => ret.score = 0 /\ is_draw(board))
               /\ (EmptyCells(board) # {} => ret.score = PositionalSum(board)))

\* an O line evaluated at depth 2, on a board where X holds the centre
C9_Witness ==
    /\ call.op = "evaluate_position"
    /\ call.depth = 2
    /\ HasLine(board, AI_PLAYER) /\ ~HasLine(board, HUMAN_PLAYER)
    /\ board[1][1] = HUMAN_PLAYER
    /\ ret.score = 98

\* C10: get_available_moves returns exactly the empty cells, each once, in
\* row-major order
C10_AvailableMovesRowMajor ==
    call.op = "get_available_moves" =>
        /\ {ret.moves[i] : i \in 1..Len(ret.moves)} = EmptyCells(board)
        /\ Len(ret.moves) = Cardinality(EmptyCells(board))
        /\ \A i \in 1..Len(ret.moves) : \A j \in 1..Len(ret.moves) :
               i < j => RowMajor(ret.moves[i]) < RowMajor(ret.moves[j])

\* the seven moves of the board of test_get_available_moves
C10_Witness ==
    /\ call.op = "get_available_moves"
    /\ board = ToBoard(<< <<"X", "", "">>, <<"", "O", "">>, <<"", "", "">> >>)
    /\ ret.moves = << <<0, 1>>, <<0, 2>>, <<1, 0>>, <<1, 2>>, <<2, 0>>, <<2, 1>>, <<2, 2>> >>

\* C11: make_move leaves the board it was given unchanged and returns a board
\* equal to it in every cell but the cell of the move, which holds the mark,
\* also when that cell was occupied; and the board given to get_best_move,
\* minimax or alpha_beta is the same after the search as before
C11_MakeMoveFrame ==
    /\ call.op = "make_move" =>
          /\ board = call.board
          /\ \A m \in Cells :
                 ret.board[m[1]][m[2]] =
                     (IF m = call.move THEN call.player ELSE call.board[m[1]][m[2]])
          /\ ret.board = make_move(call.board, call.move, call.player)
    /\ call.op \in {"minimax", "alpha_beta", "get_best_move"} => board = call.board

\* O written over the X of an occupied centre: the caller still holds the X
C11_Witness ==
    /\ call.op = "make_move"
    /\ call.move = Move(1, 1) /\ call.player = AI_PLAYER
    /\ call.board[1][1] = HUMAN_PLAYER
    /\ board[1][1] = HUMAN_PLAYER
    /\ ret.board[1][1] = AI_PLAYER
    /\ ret.board[0] = board[0] /\ ret.board[2] = board[2]

\* the number of cells of a grid that hold mark, whatever its shape
MarksOf(g, mark) ==
    Cardinality({rc \in {p \in (DOMAIN g) \X (0..3) : p[2] \in DOMAIN g[p[1]]} :
                    g[rc[1]][rc[2]] = mark})

\* C12: is_valid_board returns a boolean, true exactly when the grid has 3 rows
\* of 3 cells, every cell is X, O or empty, and count(O) <= count(X) <= count(O)
\* + 1; complete lines play no part
C12_ValidBoardIff ==
    call.op = "is_valid_board" =>
        /\ ret.valid \in BOOLEAN
        /\ ret.valid <=>
              /\ DOMAIN board = 0..2
              /\ \A row \in DOMAIN board : DOMAIN board[row] = 0..2
              /\ \A row \in DOMAIN board : \A col \in DOMAIN board[row] :
                     board[row][col] \in {"X", "O", ""}
              /\ MarksOf(board, "O") <= MarksOf(board, "X")
              /\ MarksOf(board, "X") <= MarksOf(board, "O") + 1

\* a board accepted although X holds a complete line
C12_Witness ==
    /\ call.op = "is_valid_board"
    /\ ret.valid
    /\ DOMAIN board = 0..2
    /\ \A col \in Idx : board[0][col] = "X"
    /\ MarksOf(board, "O") = 2

\* C13: when get_best_move is called with difficulty easy on a board with more
\* than one empty cell and the random substitution fires, the move_reasoning of
\* the returned analysis notes the randomization
C13_RandomizationNoted ==
    ( /\ call.op = "get_best_move"
      /\ call.difficulty = "easy"
      /\ Cardinality(EmptyCells(call.board)) > 1
      /\ call.rnd.fires )
    => ret.analysis.move_reasoning.text = "Random move for easy difficulty"

\* C14: in every branch of get_best_move that ran a search, the evaluation_score
\* of the analysis is the minimax value, at the same depth limit, of the position
\* reached by playing the returned move, also when the easy-difficulty
\* substitution replaced the computed move
C14_ScoreIsOfReturnedMove ==
    ( /\ call.op = "get_best_move"
      /\ ret.raised = ""
      /\ Cardinality(EmptyCells(call.board)) > 1 )
    => ret.analysis.evaluation_score =
           minimax(make_move(call.board, ret.move, AI_PLAYER), 1, FALSE,
                   ret.search_depth, reset_stats).score

\* C15: whatever calls were made before on the instance, a get_best_move call
\* with a difficulty other than easy returns the move, the score and the three
\* counters that a fresh instance returns for the same arguments, and leaves
\* the instance's counters as a fresh instance would
C15_NoStateAcrossCalls ==
    (call.op = "get_best_move" /\ call.difficulty # "easy") =>
        LET fresh == get_best_move(reset_stats, call.board, call.algorithm,
                                   call.difficulty, call.max_depth, NoRandom)
        IN  /\ ret.raised = fresh.raised
            /\ ret.move = fresh.move
            /\ ret.analysis = fresh.analysis
            /\ stats = fresh.st

\* a search on an instance that an earlier search left with larger counters
C15_Witness ==
    /\ call.op = "get_best_move" /\ call.difficulty = "hard"
    /\ call.max_depth = SomeInt(1)
    /\ prev.stats.max_depth_reached = 2
    /\ prev.stats.nodes_explored > stats.nodes_explored
    /\ stats.max_depth_reached = 1
    /\ ret.analysis.nodes_explored = 3

\* what the call of task t returns when nothing else runs
TaskAlone(t) ==
    get_best_move(reset_stats, tasks.task[t].board, tasks.task[t].algorithm,
                  tasks.task[t].difficulty, NoneInt, NoRandom)

C17_MoveIsAvailable ==
    (call.op = "get_best_move" /\ NumEmpty(call.board) >= 1)
        => /\ ret.raised = ""
           /\ \E i \in 1..Len(get_available_moves(call.board)) :
                  ret.move = get_available_moves(call.board)[i]
           /\ ret.move[1] \in Idx /\ ret.move[2] \in Idx
           /\ call.board[ret.move[1]][ret.move[2]] = EMPTY

\* an easy call whose random substitution fired and replaced the searched move
C17_Witness ==
    /\ call.op = "get_best_move"
    /\ call.difficulty = "easy"
    /\ call.rnd.fires
    /\ NumEmpty(call.board) = 3
    /\ ret.move # None
    /\ ret.move # get_best_move(reset_stats, call.board, call.algorithm, call.difficulty,
                                call.max_depth, NoRandom).move

\* C18: as stated, whenever get_best_move reaches the algorithm dispatch (at
\* least two empty cells) on a board accepted by is_valid_board with a positive
\* search depth, the fallback to the first available move is not taken
C18_FallbackNeverTaken ==
    (/\ call.op = "get_best_move"
     /\ NumEmpty(call.board) >= 2
     /\ is_valid_board(call.board)
     /\ ret.search_depth > 0)
        => ~ret.fallback

\* C18: whenever get_best_move reaches the algorithm dispatch (at least two
\* empty cells), the fallback to the first available move with score 0 is taken
\* exactly when the board is already game over or the search depth is not
\* positive; on a board that is not game over, with a positive search depth,
\* the dispatched algorithm returns a move
C18_FallbackOnlyWhenSearchStopsAtRoot ==
    (call.op = "get_best_move" /\ NumEmpty(call.board) >= 2)
        => /\ ret.raised = ""
           /\ ret.fallback <=> (is_game_over(call.board) \/ ret.search_depth <= 0)
           /\ ret.fallback
                => /\ ret.move = get_available_moves(call.board)[1] \/ call.rnd.fires
                   /\ ret.analysis.evaluation_score = 0
                   /\ ret.analysis.move_reasoning
                          = Reasoning("Fallback to first available move", 0)
           /\ ~ret.fallback
                => /\ ret.move # None
                   /\ ret.analysis.move_reasoning
                          # Reasoning("Fallback to first available move", 0)

\* a search on a board that is not game over, three cells empty, returned a move
C18_Witness ==
    /\ call.op = "get_best_move"
    /\ NumEmpty(call.board) = 3
    /\ is_valid_board(call.board)
    /\ ~is_game_over(call.board)
    /\ ret.search_depth > 0
    /\ ~ret.fallback
    /\ ret.move # None
    /\ ret.analysis.nodes_explored > 1

\* the score minimax returns for the child of the node of the last call that
\* move m leads to
ChildScore(m) ==
    minimax(make_move(call.board, m, IF call.is_ai_turn THEN AI_PLAYER ELSE HUMAN_PLAYER),
            call.depth + 1, ~call.is_ai_turn, CHOOSE d \in call.max_depth : TRUE,
            reset_stats).score

NodeStops ==
    is_game_over(call.board) \/ call.depth >= (CHOOSE d \in call.max_depth : TRUE)

\* C19: at a node that is not terminal and below the depth limit, minimax
\* returns the maximum (AI to move) or the minimum (opponent to move) of its
\* children's scores and the first move in row-major order among the children
\* with that score; at a terminal node or at depth >= max_depth it returns no
\* move and evaluate_position(board, depth)
C19_MinimaxNode ==
    call.op = "minimax"
        => IF NodeStops
           THEN /\ ret.move = None
                /\ ret.score = evaluate_position(call.board, call.depth)
           ELSE LET moves == get_available_moves(call.board)
                    cells == {moves[i] : i \in 1..Len(moves)}
                IN  /\ ret.move \in cells
                    /\ ChildScore(ret.move) = ret.score
                    /\ \A m \in cells :
                          /\ call.is_ai_turn => ChildScore(m) <= ret.score
                          /\ ~call.is_ai_turn => ChildScore(m) >= ret.score
                          /\ ChildScore(m) = ret.score => RowMajor(ret.move) <= RowMajor(m)

\* a node at depth 1, below its limit, where two children tie for the best
\* score and the earlier one was returned
C19_Witness ==
    /\ call.op = "minimax"
    /\ call.depth = 1
    /\ ~NodeStops
    /\ NumEmpty(call.board) = 3
    /\ \E m \in {get_available_moves(call.board)[i] :
                    i \in 1..Len(get_available_moves(call.board))} :
          /\ m # ret.move
          /\ ChildScore(m) = ret.score
          /\ RowMajor(ret.move) < RowMajor(m)

\* C20: the board the /move route obtains by applying the returned move with
\* the mark O to a board that is_valid_board accepts and that is not game over
\* satisfies count(O) <= count(X) <= count(O) + 1
C20_RouteKeepsCounts ==
    (call.op = "post_move" /\ ret.status = 200)
        => /\ count(ret.board, "O") <= count(ret.board, "X")
           /\ count(ret.board, "X") <= count(ret.board, "O") + 1

\* the value exhaustive minimax gives to the root move m of the last search:
\* the opponent to move at depth 1 on the board after m, same depth limit
RootMoveValue(m) ==
    minimax(make_move(board, m, AI_PLAYER), 1, FALSE, CHOOSE d \in call.max_depth : TRUE,
            reset_stats).score

RootMoves == {get_available_moves(board)[i] : i \in 1..Len(get_available_moves(board))}

\* C21: on a board that is not game over, with a positive depth limit, alpha_beta
\* started at depth 0 with the AI as maximizer and the full window returns the
\* score and the move minimax returns on the same board and depth limit, and
\* that move is the first in scan order whose exhaustive-minimax value equals
\* the value of the root
C21_AlphaBetaMoveEqualsMinimax ==
    (/\ call.op = "alpha_beta"
     /\ call.is_ai_turn
     /\ ~is_game_over(board)
     /\ \A d \in call.max_depth : d > 0)
        => /\ prev.call = [call EXCEPT !.op = "minimax"]
           /\ ret.score = prev.ret.score
           /\ ret.move = prev.ret.move
           /\ ret.move \in RootMoves
           /\ RootMoveValue(ret.move) = ret.score
           /\ \A m \in RootMoves :
                 /\ RootMoveValue(m) <= ret.score
                 /\ RootMoveValue(m) = ret.score => RowMajor(ret.move) <= RowMajor(m)

\* a search that cut branches, where a later root move has the value of the
\* root as well and the earlier one was returned
C21_Witness ==
    /\ call.op = "alpha_beta"
    /\ call.is_ai_turn
    /\ ~is_game_over(board)
    /\ NumEmpty(board) = 4
    /\ \A d \in call.max_depth : d >= 2
    /\ stats.pruned_branches > 0
    /\ ret.move = prev.ret.move
    /\ \E m \in RootMoves :
          /\ RowMajor(ret.move) < RowMajor(m)
          /\ RootMoveValue(m) = ret.score


====
